---- MODULE Spec2Model ----
(***************************************************************************)
(* Model of src/apps/wallets/wallet.py (class Wallet): the ownership       *)
(* matcher (owns / get_derivation / script_pubkey), the gap tracker        *)
(* (update_gaps), wallet-tag resolution (fill_psbt) and signing dispatch   *)
(* (sign_psbt).                                                            *)
(*                                                                         *)
(* Python values are represented as follows:                               *)
(*   - an optional value is a sequence: <<>> is None, <<x>> is x;          *)
(*   - a Python list is a sequence; Python index k is TLA+ index k + 1;    *)
(*   - a dict is a sequence of entries in iteration order;                 *)
(*   - a call that raises yields err = TRUE next to the state it left;     *)
(*   - an integer v in [2^31, 2^32) (a hardened derivation step) is held   *)
(*     as the 32-bit two's complement value v - 2^32, which is negative.   *)
(***************************************************************************)
EXTENDS Integers, Sequences, FiniteSets, TLC

VARIABLES descriptor, gaps, unused_recv, psbt, known_idxs, scope, fp_arg,
          sighash, lastOp, raised, ownsRes, prevOwnsRes, gapsBefore, unusedBefore,
          psbtBefore, repeated, maxUsed0,
          keystore, self_path, name, files, coord_arg, ret, nameBefore, descBefore,
          bound, prevOp

\* the wallet's storage fields, the argument and result of script_pubkey,
\* and what the last storage call started from
extVars == <<keystore, self_path, name, files, coord_arg, ret, nameBefore, descBefore,
             bound, prevOp>>

vars == <<descriptor, gaps, unused_recv, psbt, known_idxs, scope, fp_arg,
          sighash, lastOp, raised, ownsRes, prevOwnsRes, gapsBefore, unusedBefore,
          psbtBefore, repeated, maxUsed0, extVars>>

(***************************************************************************)
(* Program constants and bounds                                            *)
(***************************************************************************)
GAP_LIMIT == 20

\* the derivation step 0x80000000 + n
hardened(n) == n - 2147483647 - 1

\* the index test refusing index 0 as well
index_out_of_range_zero(idx) == idx <= 0

\* `idx < 0 or idx >= 0x80000000`: with the representation of integers
\* above, both disjuncts are the test for a negative value
index_out_of_range(idx) == idx < 0

MaxIdx == 2

None == <<>>

Some(x) == <<x>>

Max(a, b) == IF a >= b THEN a ELSE b

(***************************************************************************)
(* Collaborators: descriptor, keys, scripts                                *)
(***************************************************************************)
KeyA == [fingerprint |-> "fpA", derivation |-> <<48>>, is_private |-> FALSE]

KeyAprv == [fingerprint |-> "fpA", derivation |-> <<48>>, is_private |-> TRUE]

KeyB == [fingerprint |-> "fpB", derivation |-> <<48, 1>>, is_private |-> FALSE]

KeyA2 == [fingerprint |-> "fpA", derivation |-> <<49>>, is_private |-> FALSE]

\* a key used at the root of its signer: no origin derivation
KeyRoot == [fingerprint |-> "fpR", derivation |-> <<>>, is_private |-> FALSE]

\* wsh(multi(A,B)) with two branches, watch-only
DescWatch == [id |-> "wsh_AB", hash160 |-> <<17, 34, 51, 68>>,
              num_branches |-> 2, sh |-> FALSE,
              spk_type |-> "p2wsh", script_len |-> 71, keys |-> <<KeyA, KeyB>>]

\* the same policy holding the private key of A
DescPriv == [id |-> "wsh_aB", hash160 |-> <<170, 187, 204, 221>>,
             num_branches |-> 2, sh |-> FALSE,
             spk_type |-> "p2wsh", script_len |-> 71, keys |-> <<KeyAprv, KeyB>>]

\* sh(wsh(multi(A,A2))): script-hash-wrapped, two keys of one signer
DescWrapped == [id |-> "shwsh_AA", hash160 |-> <<1, 2, 3, 4>>,
                num_branches |-> 2, sh |-> TRUE,
                spk_type |-> "p2sh", script_len |-> 71, keys |-> <<KeyA, KeyA2>>]

\* wsh(multi(R,B)): its first key has no origin derivation
DescRoot == [id |-> "wsh_RB", hash160 |-> <<5, 6, 7, 8>>,
             num_branches |-> 2, sh |-> FALSE,
             spk_type |-> "p2wsh", script_len |-> 71, keys |-> <<KeyRoot, KeyB>>]

Descriptors == {DescWatch, DescPriv, DescWrapped}

Fingerprints == {"fpA", "fpB", "fpX"}

\* Descriptor.derive(idx, branch_index): the descriptor at one coordinate;
\* it raises for a branch outside [0, num_branches) or a hardened index
derive(desc, idx, branch_index) ==
    IF branch_index < 0 \/ branch_index >= desc.num_branches
       \/ index_out_of_range(idx)
    THEN [err |-> TRUE, desc |-> desc.id, branch |-> 0, idx |-> 0]
    ELSE [err |-> FALSE, desc |-> desc.id, branch |-> branch_index, idx |-> idx]

\* Script values: kind, script type, the derived descriptor they commit to
\* (or a foreign body), and the length of their serialization
derived_script_pubkey(desc, d) ==
    [kind |-> "spk", type |-> desc.spk_type, body |-> <<d.desc, d.branch, d.idx>>,
     len |-> 34]

derived_witness_script(desc, d) ==
    [kind |-> "witness", type |-> "script", body |-> <<d.desc, d.branch, d.idx>>,
     len |-> desc.script_len]

derived_redeem_script(desc, d) ==
    [kind |-> "redeem", type |-> "p2wsh", body |-> <<d.desc, d.branch, d.idx>>,
     len |-> 34]

\* Key.check_derivation: the claimed path must carry the key's master
\* fingerprint and base derivation followed by exactly (branch, index)
key_check_derivation(desc, k, path) ==
    LET n == Len(k.derivation) IN
    IF path.fingerprint = k.fingerprint
       /\ Len(path.derivation) = n + 2
       /\ SubSeq(path.derivation, 1, n) = k.derivation
       /\ path.derivation[n + 1] >= 0
       /\ path.derivation[n + 1] < desc.num_branches
    THEN <<path.derivation[n + 1], path.derivation[n + 2]>>
    ELSE None

RECURSIVE check_keys(_, _, _)
check_keys(desc, path, k) ==
    IF k > Len(desc.keys) THEN None
    ELSE LET der == key_check_derivation(desc, desc.keys[k], path) IN
         IF der # None THEN der ELSE check_keys(desc, path, k + 1)

\* Descriptor.check_derivation: first key that accepts the claimed path
check_derivation(desc, path) == check_keys(desc, path, 1)

\* Wallet.fingerprint: hash160(str(descriptor))[:4]
fingerprint(desc) == desc.hash160

(***************************************************************************)
(* Ownership matcher                                                       *)
(***************************************************************************)
\* get_derivation asking for more than two steps in a claimed path
RECURSIVE get_derivation_from_long(_, _, _)
get_derivation_from_long(desc, bip32_derivations, k) ==
    IF k > Len(bip32_derivations) THEN None
    ELSE LET p == bip32_derivations[k]
             der == IF Len(p.derivation) > 2 THEN check_derivation(desc, p)
                    ELSE None
         IN IF der # None THEN der
            ELSE get_derivation_from_long(desc, bip32_derivations, k + 1)

\* get_derivation: the coordinate of the first claimed path, in the
\* iteration order of the dict, that the descriptor accepts
RECURSIVE get_derivation_from(_, _, _)
get_derivation_from(desc, bip32_derivations, k) ==
    IF k > Len(bip32_derivations) THEN None
    ELSE LET p == bip32_derivations[k]
             der == IF Len(p.derivation) >= 2 THEN check_derivation(desc, p)
                    ELSE None
         IN IF der # None THEN der
            ELSE get_derivation_from(desc, bip32_derivations, k + 1)

get_derivation(desc, bip32_derivations) ==
    get_derivation_from(desc, bip32_derivations, 1)

script_pubkey(desc, g, derivation) ==
    LET branch_idx == derivation[1]
        idx == derivation[2]
        d == derive(desc, idx, branch_idx)
    IN IF branch_idx < 0 \/ branch_idx >= desc.num_branches
       THEN [err |-> TRUE, sc |-> derived_script_pubkey(desc, d), gap |-> 0]
       ELSE IF index_out_of_range(idx)
       THEN [err |-> TRUE, sc |-> derived_script_pubkey(desc, d), gap |-> 0]
       ELSE [err |-> FALSE, sc |-> derived_script_pubkey(desc, d),
             gap |-> g[branch_idx + 1]]

\* owns_matches comparing the script types only
owns_matches_type(sc, tx_out) == sc.type = tx_out.script_pubkey.type

\* last statement of owns: compare the derived script-pubkey
owns_matches(sc, tx_out) == sc = tx_out.script_pubkey

\* result is "true", "false" or "error" (script_pubkey raised WalletError)
owns(desc, g, tx_out, bip32_derivations, script) ==
    IF tx_out.script_pubkey.type # desc.spk_type THEN "false"
    ELSE IF script # None /\ script[1].len # desc.script_len THEN "false"
    ELSE LET derivation == get_derivation(desc, bip32_derivations) IN
         IF derivation = None THEN "false"
         ELSE LET r == script_pubkey(desc, g, derivation) IN
              IF r.err THEN "error"
              ELSE IF owns_matches(r.sc, tx_out) THEN "true" ELSE "false"

(***************************************************************************)
(* Gap tracker                                                             *)
(***************************************************************************)
\* `a or b` on optional scripts
script_or(a, b) == IF a # None THEN a ELSE b

\* owns() over a list of scopes, in order: the result for each scope;
\* tx_outs[k] is the output the k-th scope is tested against
RECURSIVE owns_each(_, _, _, _, _)
owns_each(desc, g, tx_outs, scopes, k) ==
    IF k > Len(scopes) THEN <<>>
    ELSE <<owns(desc, g, tx_outs[k], scopes[k].bip32_derivations,
                script_or(scopes[k].witness_script, scopes[k].redeem_script))>>
         \o owns_each(desc, g, tx_outs, scopes, k + 1)

\* psbt.utxo(i) for every input, psbt.tx.vout[i] for every output
utxos(tx) == [k \in 1..Len(tx.inputs) |-> tx.inputs[k].utxo]

vouts(tx) == [k \in 1..Len(tx.outputs) |-> tx.outputs[k].vout]

owns_inputs(desc, g, tx) == owns_each(desc, g, utxos(tx), tx.inputs, 1)

owns_outputs(desc, g, tx) == owns_each(desc, g, vouts(tx), tx.outputs, 1)

\* select_owned keeping every scope, whatever owns answered
select_owned_all(scopes, res, k) == SubSeq(scopes, k, Len(scopes))

\* the scopes, in order, for which owns returned True
RECURSIVE select_owned(_, _, _)
select_owned(scopes, res, k) ==
    IF k > Len(scopes) THEN <<>>
    ELSE (IF res[k] = "true" THEN <<scopes[k]>> ELSE <<>>)
         \o select_owned(scopes, res, k + 1)

\* the list `scopes`: owned inputs, then owned outputs
owned_scopes(desc, g, tx) ==
    select_owned(tx.inputs, owns_inputs(desc, g, tx), 1)
    \o select_owned(tx.outputs, owns_outputs(desc, g, tx), 1)

\* an ownership check of the transaction raised
owns_raised(desc, g, tx) ==
    \/ \E k \in 1..Len(tx.inputs) : owns_inputs(desc, g, tx)[k] = "error"
    \/ \E k \in 1..Len(tx.outputs) : owns_outputs(desc, g, tx)[k] = "error"

\* one iteration of `for scope in scopes`
advance_scope(g, res) ==
    IF res # None
    THEN LET branch_idx == res[1]
             idx == res[2]
         IN IF idx + GAP_LIMIT > g[branch_idx + 1]
            THEN [g EXCEPT ![branch_idx + 1] = idx + GAP_LIMIT + 1]
            ELSE g
    ELSE g

RECURSIVE advance_scopes(_, _, _, _)
advance_scopes(desc, g, scopes, k) ==
    IF k > Len(scopes) THEN g
    ELSE advance_scopes(desc,
                        advance_scope(g, get_derivation(desc, scopes[k].bip32_derivations)),
                        scopes, k + 1)

\* advance_known writing the hint without comparing it to the watermark
advance_known_unguarded(g, i, known) ==
    IF known[i + 1] # None
    THEN [g EXCEPT ![i + 1] = known[i + 1][1] + GAP_LIMIT]
    ELSE g

\* advance_known using the margin of the transaction path
advance_known_margin1(g, i, known) ==
    IF known[i + 1] # None /\ known[i + 1][1] + GAP_LIMIT > g[i + 1]
    THEN [g EXCEPT ![i + 1] = known[i + 1][1] + GAP_LIMIT + 1]
    ELSE g

\* advance_known widening the current window instead of setting it
advance_known_widen(g, i, known) ==
    IF known[i + 1] # None /\ known[i + 1][1] + GAP_LIMIT > g[i + 1]
    THEN [g EXCEPT ![i + 1] = g[i + 1] + GAP_LIMIT]
    ELSE g

\* one iteration of `for i, gap in enumerate(gaps)` with known_idxs[i] readable
advance_known(g, i, known) ==
    IF known[i + 1] # None /\ known[i + 1][1] + GAP_LIMIT > g[i + 1]
    THEN [g EXCEPT ![i + 1] = known[i + 1][1] + GAP_LIMIT]
    ELSE g

\* the loop over known_idxs; known_idxs[i] past the end of the list raises
\* IndexError and leaves the entries already written in the list
RECURSIVE advance_knowns(_, _, _)
advance_knowns(g, i, known) ==
    IF i >= Len(g) THEN [err |-> FALSE, gaps |-> g]
    ELSE IF i >= Len(known) THEN [err |-> TRUE, gaps |-> g]
    ELSE advance_knowns(advance_known(g, i, known), i + 1, known)

\* recv_cache subtracting the margin of the transaction path
recv_cache_margin1(g) == g[1] - (GAP_LIMIT + 1)

recv_cache(g) == g[1] - GAP_LIMIT

\* update_gaps(psbt, known_idxs) from wallet state (g, unused): the wallet
\* state it leaves and whether it raised.  `gaps = self.gaps` aliases the
\* list, so every write is in place and survives a later exception.
update_gaps(desc, g, unused, tx, known) ==
    IF tx # None /\ owns_raised(desc, g, tx[1])
    THEN [err |-> TRUE, gaps |-> g, unused_recv |-> unused]
    ELSE LET g1 == IF tx # None
                   THEN advance_scopes(desc, g, owned_scopes(desc, g, tx[1]), 1)
                   ELSE g
             r2 == IF known # None THEN advance_knowns(g1, 0, known[1])
                   ELSE [err |-> FALSE, gaps |-> g1]
         IN IF r2.err
            THEN [err |-> TRUE, gaps |-> r2.gaps, unused_recv |-> unused]
            ELSE [err |-> FALSE, gaps |-> r2.gaps, unused_recv |-> recv_cache(r2.gaps)]

\* Wallet.__init__: one watermark per branch
init_gaps(desc) == [b \in 1..desc.num_branches |-> GAP_LIMIT]

(***************************************************************************)
(* Wallet-tag resolution                                                   *)
(***************************************************************************)
\* int.from_bytes(b, "little") of four bytes
from_bytes_le(b) ==
    b[1] + 256 * b[2] + 65536 * b[3]
    + 16777216 * (IF b[4] >= 128 THEN b[4] - 256 ELSE b[4])

\* the loop decoding len(der) // 4 steps
RECURSIVE decode_steps(_, _)
decode_steps(der, i) ==
    IF i >= Len(der) \div 4 THEN <<>>
    ELSE <<from_bytes_le(SubSeq(der, 4 * i + 1, 4 * i + 4))>> \o decode_steps(der, i + 1)

\* b"\xfc\xca\x01" + self.fingerprint
wallet_key(desc) == <<252, 202, 1>> \o fingerprint(desc)

\* key.derive(wallet_derivation).get_public_key()
derived_pub(key, wallet_derivation) ==
    <<key.fingerprint, key.derivation>> \o wallet_derivation

\* d[pub] = path on a dict held in iteration order
RECURSIVE dict_set(_, _, _)
dict_set(d, path, k) ==
    IF k > Len(d) THEN Append(d, path)
    ELSE IF d[k].pub = path.pub THEN [d EXCEPT ![k] = path]
    ELSE dict_set(d, path, k + 1)

\* fill_derivations entering every key of the descriptor as the signer's
RECURSIVE fill_derivations_every_key(_, _, _, _, _)
fill_derivations_every_key(desc, d, fp, wallet_derivation, k) ==
    IF k > Len(desc.keys) THEN d
    ELSE LET key == desc.keys[k]
             d1 == dict_set(d, [pub |-> derived_pub(key, wallet_derivation),
                                fingerprint |-> fp,
                                derivation |-> key.derivation \o wallet_derivation], 1)
         IN fill_derivations_every_key(desc, d1, fp, wallet_derivation, k + 1)

\* `for key in self.descriptor.keys`: fill our derivations
RECURSIVE fill_derivations(_, _, _, _, _)
fill_derivations(desc, d, fp, wallet_derivation, k) ==
    IF k > Len(desc.keys) THEN d
    ELSE LET key == desc.keys[k]
             d1 == IF key.fingerprint = fp
                   THEN dict_set(d, [pub |-> derived_pub(key, wallet_derivation),
                                     fingerprint |-> fp,
                                     derivation |-> key.derivation \o wallet_derivation], 1)
                   ELSE d
         IN fill_derivations(desc, d1, fp, wallet_derivation, k + 1)

\* self.descriptor.derive(*wallet_derivation): the steps are bound to the
\* parameters of derive(idx, branch_index) in their order
derive_steps(desc, wallet_derivation) ==
    derive(desc, wallet_derivation[1], wallet_derivation[2])

\* the body of the loop for one input: the scope it leaves, and whether
\* derive raised (after the derivations were filled)
fill_scope(desc, sc, fp) ==
    IF sc.unknown = None \/ sc.unknown[1].key # wallet_key(desc)
    THEN [err |-> FALSE, scope |-> sc]
    ELSE LET wallet_derivation == decode_steps(sc.unknown[1].value, 0)
             filled == [sc EXCEPT !.bip32_derivations =
                            fill_derivations(desc, sc.bip32_derivations, fp,
                                             wallet_derivation, 1)]
             d == derive_steps(desc, wallet_derivation)
         IN IF d.err THEN [err |-> TRUE, scope |-> filled]
            ELSE [err |-> FALSE,
                  scope |-> [filled EXCEPT
                      !.witness_script = Some(derived_witness_script(desc, d)),
                      !.redeem_script = IF desc.sh
                                        THEN Some(derived_redeem_script(desc, d))
                                        ELSE @]]

RECURSIVE fill_inputs(_, _, _, _)
fill_inputs(desc, ins, fp, k) ==
    IF k > Len(ins) THEN [err |-> FALSE, inputs |-> ins]
    ELSE LET r == fill_scope(desc, ins[k], fp) IN
         IF r.err THEN [err |-> TRUE, inputs |-> [ins EXCEPT ![k] = r.scope]]
         ELSE fill_inputs(desc, [ins EXCEPT ![k] = r.scope], fp, k + 1)

\* fill_psbt(psbt, fingerprint): the transaction it leaves
fill_psbt(desc, tx, fp) ==
    LET r == fill_inputs(desc, tx.inputs, fp, 1) IN
    [err |-> r.err, psbt |-> [tx EXCEPT !.inputs = r.inputs]]

(***************************************************************************)
(* Signing dispatch                                                        *)
(***************************************************************************)
\* any(k.is_private for k in self.descriptor.keys)
has_private_keys(desc) == \E k \in 1..Len(desc.keys) : desc.keys[k].is_private

\* the signatures of the private keys of the descriptor derived at d
derived_signatures(desc, d, sh) ==
    {[pub |-> derived_pub(desc.keys[k], <<d.branch, d.idx>>), sighash |-> sh] :
        k \in {j \in 1..Len(desc.keys) : desc.keys[j].is_private}}

\* psbt.sign_with(k.private_key, sighash) for every private derived key,
\* called while input k of the transaction is visited
sign_with(ins, k, sigs) ==
    [ins EXCEPT ![k].partial_sigs = @ \cup sigs]

RECURSIVE sign_inputs(_, _, _, _)
sign_inputs(desc, ins, sh, k) ==
    IF k > Len(ins) THEN [err |-> FALSE, inputs |-> ins]
    ELSE LET der == get_derivation(desc, ins[k].bip32_derivations) IN
         IF der = None THEN sign_inputs(desc, ins, sh, k + 1)
         ELSE LET derived == derive(desc, der[2], der[1]) IN
              IF derived.err THEN [err |-> TRUE, inputs |-> ins]
              ELSE sign_inputs(desc,
                               sign_with(ins, k, derived_signatures(desc, derived, sh)),
                               sh, k + 1)

\* sign_psbt that neither returns early on a watch-only descriptor nor
\* skips the public keys of the derived descriptor
sign_psbt_every_key(desc, tx, sh) ==
    LET every == [desc EXCEPT !.keys = [k \in 1..Len(desc.keys) |->
                                          [desc.keys[k] EXCEPT !.is_private = TRUE]]]
        r == sign_inputs(every, tx.inputs, sh, 1) IN
    [err |-> r.err, psbt |-> [tx EXCEPT !.inputs = r.inputs]]

\* sign_psbt(psbt, sighash): the transaction it leaves
sign_psbt(desc, tx, sh) ==
    IF ~has_private_keys(desc) THEN [err |-> FALSE, psbt |-> tx]
    ELSE LET r == sign_inputs(desc, tx.inputs, sh, 1) IN
         [err |-> r.err, psbt |-> [tx EXCEPT !.inputs = r.inputs]]

(***************************************************************************)
(* Persistence                                                             *)
(***************************************************************************)
\* path.rstrip("/")
RECURSIVE rstrip(_)
rstrip(p) ==
    IF p # <<>> /\ p[Len(p)] = "/" THEN rstrip(SubSeq(p, 1, Len(p) - 1)) ELSE p

\* str(self.descriptor): the descriptor text, a sequence of tokens
desc_str(desc) == <<desc.id>>

\* desc.split("#")[0]
RECURSIVE split_checksum(_, _)
split_checksum(text, k) ==
    IF k > Len(text) THEN text
    ELSE IF text[k] = "#" THEN SubSeq(text, 1, k - 1)
    ELSE split_checksum(text, k + 1)

\* desc.replace(" ", "")
RECURSIVE remove_spaces(_)
remove_spaces(text) ==
    IF text = <<>> THEN <<>>
    ELSE IF text[1] = " " THEN remove_spaces(Tail(text))
    ELSE <<text[1]>> \o remove_spaces(Tail(text))

\* Descriptor.from_string on the text of a known descriptor
from_string(text) == CHOOSE d \in Descriptors : desc_str(d) = text

\* JSON values of the meta object
json_list(l) == [kind |-> "list", list |-> l, str |-> "", num |-> 0]

json_str(x) == [kind |-> "str", list |-> <<>>, str |-> x, num |-> 0]

json_num(n) == [kind |-> "num", list |-> <<>>, str |-> "", num |-> n]

\* json.dumps(obj).encode(): the document holding the members of obj
json_dumps(obj) == [format |-> "json", members |-> obj]

\* json.loads(meta.decode())
json_loads(doc) == doc.members

\* "key" in obj
has_key(obj, key) == \E k \in 1..Len(obj) : obj[k].key = key

\* obj["key"]
get_key(obj, key) == obj[CHOOSE k \in 1..Len(obj) : obj[k].key = key].value

\* meta_obj leaving the receive cache out of the object
meta_obj_without_recv(g, nm, unused) ==
    <<[key |-> "gaps", value |-> json_list(g)],
      [key |-> "name", value |-> json_str(nm)]>>

\* obj = {"gaps": self.gaps, "name": self.name, "unused_recv": self.unused_recv}
meta_obj(g, nm, unused) ==
    <<[key |-> "gaps", value |-> json_list(g)],
      [key |-> "name", value |-> json_str(nm)],
      [key |-> "unused_recv", value |-> json_num(unused)]>>

\* keystore.save_aead(dir + "/" + file, plaintext): the file is sealed by ks
save_aead(fs, ks, dir, file, plaintext) ==
    [fs EXCEPT ![dir] = Some([IF @ = None THEN [descriptor |-> None, meta |-> None]
                                 ELSE @[1]
                              EXCEPT ![file] = Some([by |-> ks, plaintext |-> plaintext])])]

\* keystore.load_aead(dir + "/" + file): it raises when the file is missing
\* or was sealed by another keystore
load_aead(fs, ks, dir, file) ==
    IF dir \notin DOMAIN fs \/ fs[dir] = None THEN [err |-> TRUE, plaintext |-> <<>>]
    ELSE IF fs[dir][1][file] = None \/ fs[dir][1][file][1].by # ks
    THEN [err |-> TRUE, plaintext |-> <<>>]
    ELSE [err |-> FALSE, plaintext |-> fs[dir][1][file][1].plaintext]

\* a wallet object: the fields __init__ sets
Wallet(desc, p, nm) ==
    [descriptor |-> desc,
     path |-> IF p # None THEN Some(rstrip(p[1])) ELSE None,
     name |-> nm,
     gaps |-> [b \in 1..desc.num_branches |-> GAP_LIMIT],
     unused_recv |-> 0,
     keystore |-> None]

\* Wallet.from_descriptor(desc, path); the keys of the descriptors of this
\* model carry their allowed derivation, so none is defaulted
from_descriptor(text, p) ==
    Wallet(from_string(remove_spaces(split_checksum(text, 1))), p, "Untitled")

\* self.save(keystore, path) on wallet w: the wallet and the files it leaves
save(w, fs, ks, p) ==
    LET w1 == [w EXCEPT !.keystore = Some(ks)]
        w2 == IF p # None THEN [w1 EXCEPT !.path = Some(rstrip(p[1]))] ELSE w1
    IN IF w2.path = None THEN [err |-> TRUE, w |-> w2, files |-> fs]
       ELSE LET fs1 == save_aead(fs, ks, w2.path[1], "descriptor", desc_str(w2.descriptor))
                meta == json_dumps(meta_obj(w2.gaps, w2.name, w2.unused_recv))
            IN [err |-> FALSE, w |-> w2,
                files |-> save_aead(fs1, ks, w2.path[1], "meta", meta)]

\* Wallet.from_path(path, keystore): the wallet it returns
from_path(fs, p, ks) ==
    LET dir == rstrip(p)
        d == load_aead(fs, ks, dir, "descriptor")
        m == load_aead(fs, ks, dir, "meta")
    IN IF d.err \/ m.err THEN [err |-> TRUE, w |-> Wallet(DescWatch, None, "Untitled")]
       ELSE LET w == from_descriptor(d.plaintext, Some(dir))
                obj == json_loads(m.plaintext)
                w1 == IF has_key(obj, "gaps")
                      THEN [w EXCEPT !.gaps = get_key(obj, "gaps").list] ELSE w
                w2 == IF has_key(obj, "name")
                      THEN [w1 EXCEPT !.name = get_key(obj, "name").str] ELSE w1
                w3 == IF has_key(obj, "unused_recv")
                      THEN [w2 EXCEPT !.unused_recv = get_key(obj, "unused_recv").num]
                      ELSE w2
            IN [err |-> FALSE, w |-> [w3 EXCEPT !.keystore = Some(ks)]]

(***************************************************************************)
(* Transactions and hint vectors handed to the wallet                      *)
(***************************************************************************)
Idxs == 0..MaxIdx

Coords(desc) == (0..(desc.num_branches - 1)) \X Idxs

\* the claimed-derivation entry of key k at coordinate (b, i)
path_of(k, b, i) ==
    [pub |-> <<k.fingerprint, k.derivation, b, i>>,
     fingerprint |-> k.fingerprint, derivation |-> k.derivation \o <<b, i>>]

spk_at(desc, b, i) == derived_script_pubkey(desc, derive(desc, i, b))

foreign_spk(desc) ==
    [kind |-> "spk", type |-> desc.spk_type, body |-> <<"foreign", 0, 0>>, len |-> 34]

other_type_spk ==
    [kind |-> "spk", type |-> "p2pkh", body |-> <<"foreign", 0, 0>>, len |-> 25]

long_script ==
    [kind |-> "witness", type |-> "script", body |-> <<"foreign", 0, 0>>, len |-> 105]

output(spk, hints, ws) ==
    [vout |-> [script_pubkey |-> spk], bip32_derivations |-> hints,
     witness_script |-> ws, redeem_script |-> None]

input(spk, hints, ws, tag, sigs) ==
    [utxo |-> [script_pubkey |-> spk], bip32_derivations |-> hints,
     witness_script |-> ws, redeem_script |-> None, unknown |-> tag,
     partial_sigs |-> sigs]

\* outputs of the wallet, with the true hint of its first key
OwnedOuts(desc) ==
    {output(spk_at(desc, c[1], c[2]), <<path_of(desc.keys[1], c[1], c[2])>>, None)
        : c \in Coords(desc)}

\* a plausible hint on a script-pubkey that is not the wallet's
MismatchOut(desc) ==
    output(foreign_spk(desc), <<path_of(desc.keys[1], 0, MaxIdx)>>, None)

\* outputs the ownership matcher has to turn down, or cannot check
OtherOuts(desc) ==
    {MismatchOut(desc),
     output(other_type_spk, <<path_of(desc.keys[1], 0, MaxIdx)>>, None),
     output(spk_at(desc, 0, MaxIdx), <<path_of(desc.keys[1], 0, MaxIdx)>>,
            Some(long_script)),
     output(spk_at(desc, 0, 1), <<>>, None),
     output(spk_at(desc, 0, 1),
            <<path_of(desc.keys[1], 0, MaxIdx), path_of(desc.keys[2], 0, 1)>>, None),
     output(foreign_spk(desc), <<path_of(desc.keys[1], 0, hardened(0))>>, None)}

Ins(desc) ==
    {input(spk_at(desc, 0, MaxIdx), <<path_of(desc.keys[2], 0, MaxIdx)>>,
           None, None, {}),
     input(foreign_spk(desc), <<path_of(desc.keys[1], 1, MaxIdx)>>, None, None, {})}

Tx(ins, outs) == [inputs |-> ins, outputs |-> outs]

\* outputs of the wallet on the receive branch
RecvOuts(desc) == {o \in OwnedOuts(desc) : o.vout.script_pubkey.body[2] = 0}

\* outputs of the wallet at index 0 of a branch
FirstOuts(desc) == {o \in OwnedOuts(desc) : o.vout.script_pubkey.body[3] = 0}

\* the output at branch 0, index 5
ExampleOut(desc) ==
    output(spk_at(desc, 0, 5), <<path_of(desc.keys[1], 0, 5)>>, None)

Psbts(desc) ==
    {Tx(<<>>, <<o>>) : o \in OwnedOuts(desc) \cup OtherOuts(desc) \cup {ExampleOut(desc)}}
    \cup {Tx(<<i>>, <<>>) : i \in Ins(desc)}
    \cup {Tx(<<i>>, <<o>>) : i \in Ins(desc), o \in RecvOuts(desc)}
    \cup {Tx(<<>>, <<o1, o2>>) :
            o1 \in RecvOuts(desc) \cup {MismatchOut(desc)}, o2 \in RecvOuts(desc)}

\* an entry of a last-used vector
KnownVals == {None, Some(1), Some(30)}

RECURSIVE Vectors(_)
Vectors(n) ==
    IF n = 0 THEN {<<>>}
    ELSE {<<v>> \o w : v \in KnownVals, w \in Vectors(n - 1)}

KnownIdxs(desc) ==
    Vectors(desc.num_branches) \cup {<<Some(30)>>, <<Some(1)>>}

\* the calls of update_gaps: a transaction, a vector, both, or neither
CallArgs(desc) ==
    {<<Some(t), None>> : t \in Psbts(desc)}
    \cup {<<None, Some(v)>> : v \in KnownIdxs(desc)}
    \cup {<<Some(Tx(<<>>, <<o>>)), Some(v)>> :
            o \in FirstOuts(desc),
            v \in {<<Some(30)>>, <<None, Some(30)>>, <<Some(1), None>>}}
    \cup {<<None, None>>}

\* the calls made on the wallet of DescWatch
GapCalls == CallArgs(DescWatch)

(***************************************************************************)
(* Wallet life cycle: construction and gap reconciliation                  *)
(***************************************************************************)
\* coordinates of the scopes of tx that owns() accepts
owned_coords(desc, g, tx) ==
    LET scopes == owned_scopes(desc, g, tx) IN
    {get_derivation(desc, scopes[k].bip32_derivations) : k \in 1..Len(scopes)}

\* the largest branch-0 index among m and the coordinates of the scopes
RECURSIVE max_used0(_, _, _, _)
max_used0(desc, scopes, k, m) ==
    IF k > Len(scopes) THEN m
    ELSE LET c == get_derivation(desc, scopes[k].bip32_derivations) IN
         max_used0(desc, scopes, k + 1, IF c # None /\ c[1] = 0 THEN Max(m, c[2]) ELSE m)

\* the largest branch-0 index reported as used up to and including a call
\* that returned: owned scopes of its transaction, entry 0 of its vector
reported0(desc, g, tx, known, m) ==
    LET m1 == IF tx # None THEN max_used0(desc, owned_scopes(desc, g, tx[1]), 1, m)
              ELSE m
    IN IF known # None /\ known[1][1] # None THEN Max(m1, known[1][1][1]) ELSE m1

RECURSIVE SetMax(_, _)
SetMax(S, m) ==
    IF S = {} THEN m
    ELSE LET x == CHOOSE y \in S : TRUE IN SetMax(S \ {x}, Max(x, m))

\* a path is the sequence of its characters
Paths == {<<"/", "a">>, <<"/", "b">>}

\* no file under any wallet directory
NoFiles == [p \in Paths |-> None]

NoRet == [err |-> FALSE, sc |-> other_type_spk, gap |-> 0, address |-> None]

\* Wallet(desc) with path=None and name="Untitled": no keystore, nothing
\* persisted, no call made
ExtInit ==
    /\ keystore = None
    /\ self_path = None
    /\ name = "Untitled"
    /\ files = NoFiles
    /\ coord_arg = None
    /\ ret = NoRet
    /\ nameBefore = "Untitled"
    /\ descBefore = None
    /\ bound = FALSE
    /\ prevOp = "init"

\* Wallet(desc): __init__ followed by no call
Init ==
    /\ ExtInit
    /\ descriptor = DescWatch
    /\ gaps = init_gaps(descriptor)
    /\ unused_recv = 0
    /\ psbt = None
    /\ known_idxs = None
    /\ scope = None
    /\ fp_arg = "fpA"
    /\ sighash = "ALL"
    /\ lastOp = "init"
    /\ raised = FALSE
    /\ ownsRes = "none"
    /\ prevOwnsRes = "none"
    /\ gapsBefore = gaps
    /\ unusedBefore = unused_recv
    /\ psbtBefore = None
    /\ repeated = FALSE
    /\ maxUsed0 = -1

DoUpdateGaps(tx, known, again) ==
    LET r == update_gaps(descriptor, gaps, unused_recv, tx, known) IN
    /\ gaps' = r.gaps
    /\ unused_recv' = r.unused_recv
    /\ raised' = r.err
    /\ psbt' = tx
    /\ known_idxs' = known
    /\ gapsBefore' = gaps
    /\ unusedBefore' = unused_recv
    /\ psbtBefore' = tx
    /\ repeated' = again
    /\ lastOp' = "update_gaps"
    /\ maxUsed0' = IF r.err THEN maxUsed0
                   ELSE reported0(descriptor, gaps, tx, known, maxUsed0)
    /\ UNCHANGED extVars
    /\ UNCHANGED <<descriptor, scope, fp_arg, sighash, ownsRes, prevOwnsRes>>

\* wallet.update_gaps(psbt, known_idxs)
UpdateGaps ==
    \E a \in GapCalls : DoUpdateGaps(a[1], a[2], FALSE)

\* the same call once more, right after it
UpdateGapsAgain ==
    /\ lastOp = "update_gaps"
    /\ ~repeated
    /\ DoUpdateGaps(psbt, known_idxs, TRUE)

Next == UpdateGaps \/ UpdateGapsAgain

Spec == Init /\ [][Next]_vars

(***************************************************************************)
(* Properties of gap reconciliation (specification Spec)                   *)
(***************************************************************************)
Branches == 1..descriptor.num_branches

CalledWithTx == lastOp = "update_gaps" /\ psbt # None

CalledWithKnown == lastOp = "update_gaps" /\ known_idxs # None

\* indices of the owned scopes of the last transaction on branch b (from 1)
OwnedIdxs(b) ==
    {c[2] : c \in {d \in owned_coords(descriptor, gapsBefore, psbt[1]) : d[1] = b - 1}}

\* C2: after update_gaps(psbt), every branch watermark is the maximum of the
\* watermark before and i + GAP_LIMIT + 1 over the owned scopes at (b, i)
C2_TxMargin ==
    (CalledWithTx /\ known_idxs = None /\ ~raised) =>
        \A b \in Branches :
            gaps[b] = SetMax({i + GAP_LIMIT + 1 : i \in OwnedIdxs(b)}, gapsBefore[b])

\* C3: update_gaps(known_idxs=v), v with one entry per branch, sets each
\* watermark to max(before, v[b] + GAP_LIMIT) and keeps it where v[b] is None
C3_KnownMargin ==
    (CalledWithKnown /\ psbt = None /\ Len(known_idxs[1]) = descriptor.num_branches) =>
        \A b \in Branches :
            gaps[b] = IF known_idxs[1][b] # None
                      THEN Max(gapsBefore[b], known_idxs[1][b][1] + GAP_LIMIT)
                      ELSE gapsBefore[b]

\* watermark 20 and hint 30 on branch 1 gives 50
C3_Witness ==
    /\ CalledWithKnown /\ psbt = None /\ ~raised
    /\ known_idxs[1] = <<None, Some(30)>>
    /\ gapsBefore[2] = 20
    /\ gaps[2] = 50

\* C4: across every step no watermark decreases and there is one watermark
\* per branch of the descriptor
C4_Monotone ==
    [][/\ Len(gaps') = descriptor.num_branches
       /\ \A b \in Branches : gaps'[b] >= gaps[b]]_vars

\* a call whose hints and transaction are both below the watermarks reached
C4_Witness ==
    /\ lastOp = "update_gaps"
    /\ gapsBefore[1] > GAP_LIMIT + 1
    /\ known_idxs # None /\ Len(known_idxs[1]) >= 1 /\ known_idxs[1][1] = Some(1)
    /\ gaps = gapsBefore

\* C5: the same call made a second time changes no watermark and not
\* unused_recv
C5_Idempotent ==
    repeated => (gaps = gapsBefore /\ unused_recv = unusedBefore)

\* a transaction with an owned scope reconciled twice
C5_Witness ==
    /\ repeated /\ psbt # None /\ ~raised
    /\ owned_coords(descriptor, gapsBefore, psbt[1]) # {}
    /\ gaps # init_gaps(descriptor)

Reverse(q) == [k \in 1..Len(q) |-> q[Len(q) + 1 - k]]

\* C6: reconciling the transaction with its scopes in the opposite order,
\* from the same wallet state, gives the same gaps and unused_recv
C6_OrderIndependent ==
    CalledWithTx =>
        LET t == Tx(Reverse(psbt[1].inputs), Reverse(psbt[1].outputs))
            r == update_gaps(descriptor, gapsBefore, unusedBefore, Some(t), known_idxs)
        IN r.gaps = gaps /\ r.unused_recv = unused_recv

\* C7: a fresh wallet has GAP_LIMIT on every branch and unused_recv 0; after
\* every update_gaps that returns, unused_recv = gaps[0] - GAP_LIMIT
C7_RecvCache ==
    /\ lastOp = "init" =>
         (unused_recv = 0 /\ Len(gaps) = descriptor.num_branches
          /\ \A b \in Branches : gaps[b] = 20)
    /\ (lastOp = "update_gaps" /\ ~raised) => unused_recv = gaps[1] - 20

\* fresh wallet, sole owned output at branch 0 index 5: [26, 20] and 6
C7_Witness ==
    /\ lastOp = "update_gaps" /\ ~raised /\ known_idxs = None
    /\ gapsBefore = <<20, 20>> /\ unusedBefore = 0
    /\ psbt = Some(Tx(<<>>, <<ExampleOut(descriptor)>>))
    /\ gaps = <<26, 20>> /\ unused_recv = 6

\* C8: unused_recv is above every branch-0 index reported as used so far
C8_UnusedNeverUsed ==
    lastOp = "update_gaps" => unused_recv > maxUsed0

\* owns, called as update_gaps calls it, accepts input s / output s
AcceptedIn(s) ==
    owns(descriptor, gapsBefore, s.utxo, s.bip32_derivations,
         script_or(s.witness_script, s.redeem_script)) = "true"

AcceptedOut(s) ==
    owns(descriptor, gapsBefore, s.vout, s.bip32_derivations,
         script_or(s.witness_script, s.redeem_script)) = "true"

\* the transaction of the last call without the scopes owns does not accept
AcceptedOnly ==
    Tx(SelectSeq(psbt[1].inputs, AcceptedIn), SelectSeq(psbt[1].outputs, AcceptedOut))

\* the branches (from 1) the accepted scopes of the last call resolve to
AcceptedBranches ==
    {get_derivation(descriptor, AcceptedOnly.inputs[k].bip32_derivations)[1] + 1 :
        k \in 1..Len(AcceptedOnly.inputs)}
    \cup {get_derivation(descriptor, AcceptedOnly.outputs[k].bip32_derivations)[1] + 1 :
            k \in 1..Len(AcceptedOnly.outputs)}

\* C18: update_gaps(psbt) leaves the watermark of every branch to which no
\* scope accepted by owns resolves, and leaves the wallet as the same call
\* does on the transaction without its scopes that owns does not accept
C18_OnlyOwnedAdvance ==
    (CalledWithTx /\ known_idxs = None) =>
        /\ \A b \in Branches : b \notin AcceptedBranches => gaps[b] = gapsBefore[b]
        /\ ~raised =>
              LET r == update_gaps(descriptor, gapsBefore, unusedBefore,
                                   Some(AcceptedOnly), None) IN
              /\ gaps = r.gaps
              /\ unused_recv = r.unused_recv

\* a transaction with an accepted output and an output that is not accepted
\* but carries a claimed path to a higher index: branch 0 advanced on
\* account of the first alone, branch 1 kept its watermark
C18_Witness ==
    /\ CalledWithTx /\ known_idxs = None /\ ~raised
    /\ Len(AcceptedOnly.outputs) = 1
    /\ \E k \in 1..Len(psbt[1].outputs) :
          /\ ~AcceptedOut(psbt[1].outputs[k])
          /\ get_derivation(descriptor, psbt[1].outputs[k].bip32_derivations) # None
    /\ gaps[1] > gapsBefore[1]
    /\ gaps[2] = gapsBefore[2]

\* C13: a call of update_gaps that raises leaves every watermark and the
\* receive cache at the values they had before the call
C13_NoPartialCommit ==
    (lastOp = "update_gaps" /\ raised) =>
        /\ gaps = gapsBefore
        /\ unused_recv = unusedBefore

(***************************************************************************)
(* The ownership matcher on single scopes (specification SpecOwns)         *)
(***************************************************************************)
SpkVals(desc) ==
    {spk_at(desc, c[1], c[2]) : c \in Coords(desc)}
    \cup {spk_at(desc, 0, 2147483647), foreign_spk(desc), other_type_spk}

\* claimed paths: true ones of both keys (the last index below 2^31
\* included), an unknown signer, a path too short to hold a coordinate, a
\* branch out of range, a hardened index
PathVals(desc) ==
    {path_of(desc.keys[1], c[1], c[2]) : c \in Coords(desc)}
    \cup {path_of(desc.keys[2], 0, 1),
          path_of(desc.keys[1], 0, 2147483647),
          [pub |-> <<"fpX", <<48>>, 0, 1>>, fingerprint |-> "fpX",
           derivation |-> <<48, 0, 1>>],
          [pub |-> <<"fpA", <<>>, 0, 0>>, fingerprint |-> "fpA", derivation |-> <<1>>],
          path_of(desc.keys[1], desc.num_branches, 1),
          path_of(desc.keys[1], 0, hardened(0))}

HintMaps(desc) ==
    {<<>>} \cup {<<p>> : p \in PathVals(desc)}
    \cup {<<pq[1], pq[2]>> :
            pq \in {x \in PathVals(desc) \X PathVals(desc) : x[1] # x[2]}}

ScriptVals(desc) ==
    {None, Some(derived_witness_script(desc, derive(desc, 0, 0))), Some(long_script)}

OwnsArgs(desc) ==
    [tx_out : {[script_pubkey |-> k] : k \in SpkVals(desc)},
     bip32_derivations : HintMaps(desc),
     script : ScriptVals(desc)]

OwnsDescriptors == {DescWatch, DescWrapped, DescRoot}

InitOwns ==
    /\ ExtInit
    /\ descriptor \in OwnsDescriptors
    /\ gaps = init_gaps(descriptor)
    /\ unused_recv = 0
    /\ psbt = None
    /\ known_idxs = None
    /\ scope \in {Some(a) : a \in OwnsArgs(descriptor)}
    /\ fp_arg = "fpA"
    /\ sighash = "ALL"
    /\ lastOp = "init"
    /\ raised = FALSE
    /\ ownsRes = "none"
    /\ prevOwnsRes = "none"
    /\ gapsBefore = gaps
    /\ unusedBefore = unused_recv
    /\ psbtBefore = None
    /\ repeated = FALSE
    /\ maxUsed0 = -1

\* wallet.owns(tx_out, bip32_derivations, script)
Owns ==
    /\ lastOp = "init"
    /\ ownsRes' = owns(descriptor, gaps, scope[1].tx_out, scope[1].bip32_derivations,
                       scope[1].script)
    /\ lastOp' = "owns"
    /\ UNCHANGED extVars
    /\ UNCHANGED <<descriptor, gaps, unused_recv, psbt, known_idxs, scope, fp_arg,
                   sighash, raised, prevOwnsRes, gapsBefore, unusedBefore, psbtBefore,
                   repeated, maxUsed0>>

\* owns on the same scope with its script-pubkey replaced by another value
OwnsTampered ==
    /\ lastOp = "owns"
    /\ \E k \in SpkVals(descriptor) \ {scope[1].tx_out.script_pubkey} :
         /\ scope' = Some([scope[1] EXCEPT !.tx_out = [script_pubkey |-> k]])
         /\ ownsRes' = owns(descriptor, gaps, [script_pubkey |-> k],
                            scope[1].bip32_derivations, scope[1].script)
    /\ prevOwnsRes' = ownsRes
    /\ lastOp' = "owns_tampered"
    /\ UNCHANGED extVars
    /\ UNCHANGED <<descriptor, gaps, unused_recv, psbt, known_idxs, fp_arg,
                   sighash, raised, gapsBefore, unusedBefore, psbtBefore, repeated, maxUsed0>>

NextOwns == Owns \/ OwnsTampered

SpecOwns == InitOwns /\ [][NextOwns]_vars

\* C1: owns returns true only if the script-pubkey derived at the coordinate
\* of get_derivation(hints) is the scope's script-pubkey; an owned scope
\* whose script-pubkey is replaced by another value is not owned
C1_OwnsOnlyIfMatch ==
    /\ (lastOp \in {"owns", "owns_tampered"} /\ ownsRes = "true") =>
         LET der == get_derivation(descriptor, scope[1].bip32_derivations) IN
         /\ der # None
         /\ spk_at(descriptor, der[1], der[2]) = scope[1].tx_out.script_pubkey
    /\ (lastOp = "owns_tampered" /\ prevOwnsRes = "true") => ownsRes = "false"

\* an owned scope whose script-pubkey was replaced by one of the same type
C1_Witness ==
    /\ lastOp = "owns_tampered" /\ prevOwnsRes = "true" /\ ownsRes = "false"
    /\ scope[1].tx_out.script_pubkey.type = descriptor.spk_type
    /\ scope[1].tx_out.script_pubkey.body[1] = descriptor.id

\* the scope handed to owns is the one made at coordinate (b, i): its
\* script-pubkey is the one script_pubkey returns there, every claimed
\* path is the true path of a descriptor key to (b, i), and the script it
\* carries, if any, has the length of the descriptor's scripts
RoundTripScope(b, i) ==
    LET r == script_pubkey(descriptor, gaps, <<b, i>>) IN
    /\ ~r.err
    /\ scope[1].tx_out.script_pubkey = r.sc
    /\ scope[1].bip32_derivations # <<>>
    /\ \A k \in 1..Len(scope[1].bip32_derivations) :
          \E j \in 1..Len(descriptor.keys) :
              scope[1].bip32_derivations[k] = path_of(descriptor.keys[j], b, i)
    /\ (scope[1].script = None \/ scope[1].script[1].len = descriptor.script_len)

\* C12: for every branch of the descriptor and every index below 2^31, the
\* scope made at that coordinate with its true claimed path is accepted by
\* owns, and get_derivation returns exactly that coordinate
C12_OwnershipRoundTrip ==
    lastOp = "owns" =>
        \A b \in 0..(descriptor.num_branches - 1) :
            \A i \in Idxs \cup {2147483647} :
                RoundTripScope(b, i) =>
                    /\ ownsRes = "true"
                    /\ get_derivation(descriptor, scope[1].bip32_derivations) = <<b, i>>

\* owns accepted the scope made at the last index below 2^31 from the true
\* path of a key that has no origin derivation
C12_Witness ==
    /\ lastOp = "owns"
    /\ RoundTripScope(0, 2147483647)
    /\ scope[1].bip32_derivations = <<path_of(KeyRoot, 0, 2147483647)>>
    /\ ownsRes = "true"

\* claimed path k of the scope passes the derivation policy with a
\* coordinate whose derived script-pubkey is the scope's
HintMatches(k) ==
    LET p == scope[1].bip32_derivations[k]
        c == IF Len(p.derivation) >= 2 THEN check_derivation(descriptor, p) ELSE None
    IN /\ c # None
       /\ ~script_pubkey(descriptor, gaps, c).err
       /\ script_pubkey(descriptor, gaps, c).sc = scope[1].tx_out.script_pubkey

\* C19: owns accepts a scope that passes the type and length checks and
\* has at least one claimed path matching its script-pubkey, whatever the
\* order of the claimed paths and whatever else they hold
C19_AnyMatchingHint ==
    (/\ lastOp = "owns"
     /\ scope[1].tx_out.script_pubkey.type = descriptor.spk_type
     /\ (scope[1].script = None \/ scope[1].script[1].len = descriptor.script_len)
     /\ \E k \in 1..Len(scope[1].bip32_derivations) : HintMatches(k))
        => ownsRes = "true"

(***************************************************************************)
(* Wallet-tag resolution on tagged inputs (specification SpecFill)         *)
(***************************************************************************)
\* a step as four little-endian bytes
to_bytes_le(n) ==
    <<n % 256, (n \div 256) % 256, (n \div 65536) % 256, (n \div 16777216) % 256>>

TagSteps == {<<0, 0>>, <<0, 1>>, <<1, 0>>, <<1, 1>>, <<0, 7>>, <<0, 300>>}

tag_of(key, steps) ==
    Some([key |-> key, value |-> to_bytes_le(steps[1]) \o to_bytes_le(steps[2])])

\* the fingerprint of some other wallet
OtherWalletKey == <<252, 202, 1, 9, 9, 9, 9>>

Tags(desc) ==
    {None, tag_of(OtherWalletKey, <<0, 1>>)}
    \cup {tag_of(wallet_key(desc), st) : st \in TagSteps}

FillIns(desc) ==
    {input(spk_at(desc, 0, 1), h, ws, t, {}) :
        h \in {<<>>, <<path_of(desc.keys[2], 0, 1)>>},
        ws \in {None, Some(long_script)},
        t \in Tags(desc)}

FillPsbts(desc) ==
    {Tx(<<i>>, <<>>) : i \in FillIns(desc)}
    \cup {Tx(<<i, j>>, <<MismatchOut(desc)>>) :
            i \in FillIns(desc),
            j \in {x \in FillIns(desc) : x.bip32_derivations = <<>>
                                         /\ x.witness_script = None}}

InitFill ==
    /\ ExtInit
    /\ descriptor \in Descriptors
    /\ gaps = init_gaps(descriptor)
    /\ unused_recv = 0
    /\ psbt \in {Some(t) : t \in FillPsbts(descriptor)}
    /\ known_idxs = None
    /\ scope = None
    /\ fp_arg \in Fingerprints
    /\ sighash = "ALL"
    /\ lastOp = "init"
    /\ raised = FALSE
    /\ ownsRes = "none"
    /\ prevOwnsRes = "none"
    /\ gapsBefore = gaps
    /\ unusedBefore = unused_recv
    /\ psbtBefore = psbt
    /\ repeated = FALSE
    /\ maxUsed0 = -1

\* wallet.fill_psbt(psbt, fingerprint)
FillPsbt ==
    /\ lastOp = "init"
    /\ LET r == fill_psbt(descriptor, psbt[1], fp_arg) IN
         /\ psbt' = Some(r.psbt)
         /\ raised' = r.err
    /\ psbtBefore' = psbt
    /\ lastOp' = "fill_psbt"
    /\ UNCHANGED extVars
    /\ UNCHANGED <<descriptor, gaps, unused_recv, known_idxs, scope, fp_arg, sighash,
                   ownsRes, prevOwnsRes, gapsBefore, unusedBefore, repeated, maxUsed0>>

NextFill == FillPsbt

SpecFill == InitFill /\ [][NextFill]_vars

\* input k carried the tag of this wallet with steps naming a coordinate
\* of the descriptor
TaggedAt(k, b, i) ==
    /\ psbtBefore[1].inputs[k].unknown # None
    /\ psbtBefore[1].inputs[k].unknown[1].key = wallet_key(descriptor)
    /\ psbtBefore[1].inputs[k].unknown[1].value = to_bytes_le(b) \o to_bytes_le(i)

\* C9: after fill_psbt, an input tagged with steps [b, i] holds the entry
\* (signer fingerprint, key.derivation ++ [b, i]) of every descriptor key of
\* the signer, its witness script is that of the descriptor derived at
\* branch b, index i, and so is its redeem script when the descriptor is
\* script-hash-wrapped
C9_TagResolution ==
    lastOp = "fill_psbt" =>
        \A k \in 1..Len(psbt[1].inputs) : \A c \in Coords(descriptor) \cup {<<0, 7>>} :
            TaggedAt(k, c[1], c[2]) =>
                LET inp == psbt[1].inputs[k]
                    d == derive(descriptor, c[2], c[1])
                IN /\ \A j \in 1..Len(descriptor.keys) :
                        descriptor.keys[j].fingerprint = fp_arg =>
                            \E e \in 1..Len(inp.bip32_derivations) :
                                /\ inp.bip32_derivations[e].fingerprint = fp_arg
                                /\ inp.bip32_derivations[e].derivation
                                     = descriptor.keys[j].derivation \o <<c[1], c[2]>>
                   /\ inp.witness_script = Some(derived_witness_script(descriptor, d))
                   /\ descriptor.sh =>
                        inp.redeem_script = Some(derived_redeem_script(descriptor, d))

\* input k carried the tag of this wallet
Tagged(k) ==
    /\ psbtBefore[1].inputs[k].unknown # None
    /\ psbtBefore[1].inputs[k].unknown[1].key = wallet_key(descriptor)

\* the claimed-derivation map m holds an entry for the public key pub
HasEntry(m, pub) == \E j \in 1..Len(m) : m[j].pub = pub

\* C20: fill_psbt leaves every input without this wallet's tag as it was;
\* on a tagged input it changes nothing but the claimed-derivation map, the
\* witness script and, for a script-hash-wrapped descriptor, the redeem
\* script, every entry it adds or rewrites carries the signer's fingerprint
\* and belongs to a descriptor key of the signer, and no entry appears for
\* a key of another signer; outputs, watermarks and receive cache are kept
C20_FillFrame ==
    lastOp = "fill_psbt" =>
        /\ Len(psbt[1].inputs) = Len(psbtBefore[1].inputs)
        /\ \A k \in 1..Len(psbt[1].inputs) :
              LET a == psbtBefore[1].inputs[k]
                  b == psbt[1].inputs[k]
              IN /\ ~Tagged(k) => b = a
                 /\ b.utxo = a.utxo /\ b.unknown = a.unknown
                 /\ b.partial_sigs = a.partial_sigs
                 /\ ~descriptor.sh => b.redeem_script = a.redeem_script
                 /\ Tagged(k) =>
                       LET wd == decode_steps(a.unknown[1].value, 0) IN
                       /\ \A j \in 1..Len(b.bip32_derivations) :
                             LET e == b.bip32_derivations[j] IN
                             \/ \E i \in 1..Len(a.bip32_derivations) :
                                    a.bip32_derivations[i] = e
                             \/ /\ e.fingerprint = fp_arg
                                /\ \E i \in 1..Len(descriptor.keys) :
                                      /\ descriptor.keys[i].fingerprint = fp_arg
                                      /\ e.pub = derived_pub(descriptor.keys[i], wd)
                       /\ \A i \in 1..Len(descriptor.keys) :
                             descriptor.keys[i].fingerprint # fp_arg =>
                                 (HasEntry(b.bip32_derivations,
                                           derived_pub(descriptor.keys[i], wd))
                                  <=> HasEntry(a.bip32_derivations,
                                               derived_pub(descriptor.keys[i], wd)))
        /\ psbt[1].outputs = psbtBefore[1].outputs
        /\ gaps = gapsBefore
        /\ unused_recv = unusedBefore

\* a transaction with an output, an input tagged for another wallet and an
\* input tagged for this one, filled for a signer owning one of the two
\* keys of a descriptor that is not script-hash-wrapped: the input tagged
\* for this wallet gained the entry of that key alone
C20_Witness ==
    /\ lastOp = "fill_psbt" /\ ~raised
    /\ ~descriptor.sh
    /\ descriptor.keys[1].fingerprint = fp_arg
    /\ descriptor.keys[2].fingerprint # fp_arg
    /\ Len(psbt[1].inputs) = 2
    /\ Len(psbt[1].outputs) = 1
    /\ Tagged(1)
    /\ Len(psbt[1].inputs[1].bip32_derivations)
          = Len(psbtBefore[1].inputs[1].bip32_derivations) + 1
    /\ ~Tagged(2)
    /\ psbtBefore[1].inputs[2].unknown # None

(***************************************************************************)
(* Signing dispatch on transactions (specification SpecSign)               *)
(***************************************************************************)
ForeignSig == [pub |-> <<"fpB", <<48, 1>>, 0, 1>>, sighash |-> "ALL"]

SignIns(desc) ==
    {input(k, h, None, None, sg) :
        k \in {spk_at(desc, 0, 1), foreign_spk(desc)},
        h \in {<<>>, <<path_of(desc.keys[1], 0, 1)>>,
               <<path_of(desc.keys[1], desc.num_branches, 1)>>,
               <<path_of(desc.keys[1], 0, hardened(1))>>},
        sg \in {{}, {ForeignSig}}}

SignPsbts(desc) ==
    {Tx(<<i>>, <<>>) : i \in SignIns(desc)}
    \cup {Tx(<<i, j>>, <<>>) : i \in SignIns(desc),
                               j \in {x \in SignIns(desc) : x.partial_sigs = {}}}

InitSign ==
    /\ ExtInit
    /\ descriptor \in Descriptors
    /\ gaps = init_gaps(descriptor)
    /\ unused_recv = 0
    /\ psbt \in {Some(t) : t \in SignPsbts(descriptor)}
    /\ known_idxs = None
    /\ scope = None
    /\ fp_arg = "fpA"
    /\ sighash \in {"ALL", "SINGLE"}
    /\ lastOp = "init"
    /\ raised = FALSE
    /\ ownsRes = "none"
    /\ prevOwnsRes = "none"
    /\ gapsBefore = gaps
    /\ unusedBefore = unused_recv
    /\ psbtBefore = psbt
    /\ repeated = FALSE
    /\ maxUsed0 = -1

\* wallet.sign_psbt(psbt, sighash)
SignPsbt ==
    /\ lastOp = "init"
    /\ LET r == sign_psbt(descriptor, psbt[1], sighash) IN
         /\ psbt' = Some(r.psbt)
         /\ raised' = r.err
    /\ psbtBefore' = psbt
    /\ lastOp' = "sign_psbt"
    /\ UNCHANGED extVars
    /\ UNCHANGED <<descriptor, gaps, unused_recv, known_idxs, scope, fp_arg, sighash,
                   ownsRes, prevOwnsRes, gapsBefore, unusedBefore, repeated, maxUsed0>>

NextSign == SignPsbt

SpecSign == InitSign /\ [][NextSign]_vars

\* C10: sign_psbt changes the signature set of an input only if the
\* ownership matcher accepts the input against its previous output
C10_SignsOnlyOwned ==
    lastOp = "sign_psbt" =>
        \A k \in 1..Len(psbt[1].inputs) :
            psbt[1].inputs[k].partial_sigs # psbtBefore[1].inputs[k].partial_sigs =>
                LET inp == psbtBefore[1].inputs[k] IN
                owns(descriptor, gaps, inp.utxo, inp.bip32_derivations,
                     script_or(inp.witness_script, inp.redeem_script)) = "true"

\* C11: on a wallet whose descriptor holds no private key, sign_psbt
\* returns normally and leaves the transaction (every input's signature
\* set included), the watermarks and the receive cache as they were
C11_WatchOnlyNoOp ==
    (lastOp = "sign_psbt" /\ ~has_private_keys(descriptor)) =>
        /\ ~raised
        /\ psbt = psbtBefore
        /\ gaps = gapsBefore
        /\ unused_recv = unusedBefore
        /\ keystore = None

\* a watch-only wallet was asked to sign a transaction holding an input
\* whose claimed path resolves and an input whose claimed index is hardened
C11_Witness ==
    /\ lastOp = "sign_psbt"
    /\ ~has_private_keys(descriptor)
    /\ \E k \in 1..Len(psbtBefore[1].inputs) :
           get_derivation(descriptor, psbtBefore[1].inputs[k].bip32_derivations) = <<0, 1>>
    /\ \E k \in 1..Len(psbtBefore[1].inputs) :
           psbtBefore[1].inputs[k].bip32_derivations
               = <<path_of(descriptor.keys[1], 0, hardened(1))>>

\* C15: sign_psbt on a wallet that holds no keystore raises and attaches
\* no signature to any input
C15_UnboundNoSign ==
    (lastOp = "sign_psbt" /\ keystore = None) =>
        /\ raised
        /\ psbt = psbtBefore

(***************************************************************************)
(* Saving and loading the wallet (specification SpecStore)                 *)
(***************************************************************************)
Keystores == {"ks1", "ks2"}

\* the path arguments of the constructor, save and from_path
PathArgs == {<<"/", "a">>, <<"/", "a", "/">>, <<"/", "b">>}

StoreDescriptors == {DescWatch, DescWrapped}

\* meta objects found on disk: written by save, or lacking fields
OldMetas ==
    {<<>>,
     <<[key |-> "gaps", value |-> json_list(<<50, 21>>)]>>,
     <<[key |-> "name", value |-> json_str("Old")],
       [key |-> "unused_recv", value |-> json_num(30)]>>,
     meta_obj(<<50, 21>>, "Old", 30)}

\* descriptor texts found on disk: with a checksum, with spaces
OldTexts == {<<"wsh_AB", "#", "k7x">>, <<" ", "shwsh_AA", " ">>}

\* the directory /b holding a wallet sealed by ks1 before this run, or a
\* descriptor file alone
OldFiles ==
    {[NoFiles EXCEPT ![<<"/", "b">>] =
         Some([descriptor |-> Some([by |-> "ks1", plaintext |-> t]),
               meta |-> Some([by |-> "ks1", plaintext |-> json_dumps(m)])])] :
        t \in OldTexts, m \in OldMetas}
    \cup {[NoFiles EXCEPT ![<<"/", "b">>] =
              Some([descriptor |-> Some([by |-> "ks1", plaintext |-> <<"wsh_AB">>]),
                    meta |-> None])]}

\* the calls of update_gaps made between storage calls
StoreCalls(desc) ==
    {<<None, Some(<<Some(30), None>>)>>,
     <<Some(Tx(<<>>, <<ExampleOut(desc)>>)), None>>}

\* Wallet(desc, path, name) with nothing or an older wallet on disk
InitStore ==
    /\ descriptor \in StoreDescriptors
    /\ \E p \in {None, Some(<<"/", "a", "/">>)}, nm \in {"Untitled", "Cold"} :
         LET w == Wallet(descriptor, p, nm) IN
         /\ gaps = w.gaps
         /\ unused_recv = w.unused_recv
         /\ name = w.name
         /\ self_path = w.path
         /\ keystore = w.keystore
    /\ files \in {NoFiles} \cup OldFiles
    /\ psbt = None
    /\ known_idxs = None
    /\ scope = None
    /\ fp_arg = "fpA"
    /\ sighash = "ALL"
    /\ lastOp = "init"
    /\ raised = FALSE
    /\ ownsRes = "none"
    /\ prevOwnsRes = "none"
    /\ gapsBefore = gaps
    /\ unusedBefore = unused_recv
    /\ psbtBefore = None
    /\ repeated = FALSE
    /\ maxUsed0 = -1
    /\ coord_arg = None
    /\ ret = NoRet
    /\ nameBefore = name
    /\ descBefore = None
    /\ bound = FALSE
    /\ prevOp = "init"

\* the wallet object held in the variables
self == [descriptor |-> descriptor, path |-> self_path, name |-> name,
         gaps |-> gaps, unused_recv |-> unused_recv, keystore |-> keystore]

\* wallet.update_gaps between storage calls
StoreUpdateGaps ==
    /\ \E a \in StoreCalls(descriptor) : DoUpdateGaps(a[1], a[2], FALSE)

\* wallet.save(keystore, path)
Save ==
    \E ks \in Keystores, p \in {None} \cup {Some(q) : q \in PathArgs} :
        LET r == save(self, files, ks, p) IN
        /\ keystore' = r.w.keystore
        /\ self_path' = r.w.path
        /\ files' = r.files
        /\ raised' = r.err
        /\ bound' = (bound \/ ~r.err)
        /\ gapsBefore' = gaps
        /\ unusedBefore' = unused_recv
        /\ nameBefore' = name
        /\ descBefore' = Some(descriptor)
        /\ prevOp' = lastOp
        /\ lastOp' = "save"
        /\ UNCHANGED <<descriptor, gaps, unused_recv, name, psbt, known_idxs, scope,
                       fp_arg, sighash, ownsRes, prevOwnsRes, psbtBefore, repeated,
                       maxUsed0, coord_arg, ret>>

\* w = Wallet.from_path(path, keystore): the loaded wallet takes the place
\* of the wallet object; when from_path raises no wallet is made
FromPath ==
    \E ks \in Keystores, p \in PathArgs :
        LET r == from_path(files, p, ks)
            resaved == lastOp = "save" /\ ~raised /\ self_path = Some(rstrip(p))
                       /\ keystore = Some(ks)
        IN
        /\ raised' = r.err
        /\ IF r.err
           THEN UNCHANGED <<descriptor, gaps, unused_recv, name, self_path, keystore,
                            bound>>
           ELSE /\ descriptor' = r.w.descriptor
                /\ gaps' = r.w.gaps
                /\ unused_recv' = r.w.unused_recv
                /\ name' = r.w.name
                /\ self_path' = r.w.path
                /\ keystore' = r.w.keystore
                /\ bound' = TRUE
        /\ gapsBefore' = gaps
        /\ unusedBefore' = unused_recv
        /\ nameBefore' = name
        /\ descBefore' = Some(descriptor)
        /\ prevOp' = IF resaved THEN "save" ELSE "other"
        /\ lastOp' = "from_path"
        /\ UNCHANGED <<files, psbt, known_idxs, scope, fp_arg, sighash, ownsRes,
                       prevOwnsRes, psbtBefore, repeated, maxUsed0, coord_arg, ret>>

NextStore == StoreUpdateGaps \/ Save \/ FromPath

SpecStore == InitStore /\ [][NextStore]_vars

\* C14: the wallet holds a keystore only if it was loaded by from_path or
\* a save call completed; a save call that raises for want of a path
\* leaves the wallet without keystore and its other fields as they were
C14_KeystoreBinding ==
    /\ keystore # None => bound
    /\ (lastOp = "save" /\ raised) =>
          /\ keystore = None
          /\ self_path = None
          /\ gaps = gapsBefore
          /\ unused_recv = unusedBefore
          /\ name = nameBefore

\* C17: a wallet loaded by from_path right after save, from the same
\* directory with the same keystore, has the descriptor, watermarks, name
\* and receive cache of the saved wallet and holds the keystore; a field
\* missing from the meta object on disk keeps the constructor's default
C17_PersistenceRoundTrip ==
    /\ (lastOp = "from_path" /\ prevOp = "save") =>
          /\ ~raised
          /\ descriptor = descBefore[1]
          /\ gaps = gapsBefore
          /\ name = nameBefore
          /\ unused_recv = unusedBefore
    /\ (lastOp = "from_path" /\ ~raised) =>
          LET obj == json_loads(files[self_path[1]][1].meta[1].plaintext) IN
          /\ keystore # None
          /\ ~has_key(obj, "gaps") => gaps = [b \in 1..descriptor.num_branches |-> GAP_LIMIT]
          /\ ~has_key(obj, "name") => name = "Untitled"
          /\ ~has_key(obj, "unused_recv") => unused_recv = 0

\* a named wallet whose watermark and receive cache had advanced was saved
\* and loaded back, over a directory that held an older wallet
C17_Witness ==
    /\ lastOp = "from_path" /\ prevOp = "save" /\ ~raised
    /\ name = "Cold"
    /\ gaps[1] > GAP_LIMIT
    /\ unused_recv > 0
    /\ self_path = Some(<<"/", "b">>)
    /\ descriptor = DescWrapped

(***************************************************************************)
(* Address lookup (specification SpecAddr)                                 *)
(***************************************************************************)
\* branch arguments: below, inside and past [0, num_branches)
BranchArgs(desc) == (-1)..desc.num_branches

\* index arguments: negative, the model's indices, the last index below
\* 2^31, and 2^31 and 2^31 + 1
IdxArgs == {-1, 2147483647, hardened(0), hardened(1)} \cup Idxs

Networks == {"main", "test"}

\* sc.address(network)
address(sc, network) == <<sc.body, sc.type, network>>

\* wallet.get_address(idx, network, branch_index): what it returns; the
\* branch arguments are integers, which int(branch_index) returns as given
get_address(desc, g, idx, network, branch_index) ==
    LET r == script_pubkey(desc, g, <<branch_index, idx>>) IN
    [err |-> r.err, sc |-> r.sc, gap |-> r.gap,
     address |-> IF r.err THEN None ELSE Some(address(r.sc, network))]

InitAddr ==
    /\ ExtInit
    /\ descriptor \in StoreDescriptors
    /\ gaps = init_gaps(descriptor)
    /\ unused_recv = 0
    /\ psbt = None
    /\ known_idxs = None
    /\ scope = None
    /\ fp_arg = "fpA"
    /\ sighash = "ALL"
    /\ lastOp = "init"
    /\ raised = FALSE
    /\ ownsRes = "none"
    /\ prevOwnsRes = "none"
    /\ gapsBefore = gaps
    /\ unusedBefore = unused_recv
    /\ psbtBefore = None
    /\ repeated = FALSE
    /\ maxUsed0 = -1

\* wallet.update_gaps between lookups
AddrUpdateGaps ==
    /\ \E a \in StoreCalls(descriptor) : DoUpdateGaps(a[1], a[2], FALSE)

\* a lookup returning r for the coordinate (b, i)
DoLookup(op, b, i, r) ==
    /\ coord_arg' = Some(<<b, i>>)
    /\ ret' = r
    /\ raised' = r.err
    /\ gapsBefore' = gaps
    /\ unusedBefore' = unused_recv
    /\ nameBefore' = name
    /\ descBefore' = Some(descriptor)
    /\ prevOp' = lastOp
    /\ lastOp' = op
    /\ UNCHANGED <<descriptor, gaps, unused_recv, psbt, known_idxs, scope, fp_arg,
                   sighash, ownsRes, prevOwnsRes, psbtBefore, repeated, maxUsed0,
                   keystore, self_path, name, files, bound>>

\* wallet.script_pubkey([branch_idx, idx])
ScriptPubkey ==
    \E b \in BranchArgs(descriptor), i \in IdxArgs :
        LET r == script_pubkey(descriptor, gaps, <<b, i>>) IN
        DoLookup("script_pubkey", b, i,
                 [err |-> r.err, sc |-> r.sc, gap |-> r.gap, address |-> None])

\* wallet.get_address(idx, network, branch_index)
GetAddress ==
    \E b \in BranchArgs(descriptor), i \in IdxArgs, n \in Networks :
        DoLookup("get_address", b, i, get_address(descriptor, gaps, i, n, b))

NextAddr == AddrUpdateGaps \/ ScriptPubkey \/ GetAddress

SpecAddr == InitAddr /\ [][NextAddr]_vars

\* the coordinate of the last lookup lies in [0, num_branches) x [0, 2^31)
CoordInRange ==
    /\ coord_arg[1][1] \in 0..(descriptor.num_branches - 1)
    /\ coord_arg[1][2] \in 0..2147483647

\* C16: script_pubkey and get_address raise exactly when the branch is
\* outside [0, num_branches) or the index is outside [0, 2^31); otherwise
\* they return the script-pubkey derived at the coordinate with the
\* current watermark of its branch; either way no wallet field changes
C16_ScriptPubkey ==
    lastOp \in {"script_pubkey", "get_address"} =>
        /\ raised <=> ~CoordInRange
        /\ gaps = gapsBefore
        /\ unused_recv = unusedBefore
        /\ name = nameBefore
        /\ descriptor = descBefore[1]
        /\ ~raised =>
              /\ ret.sc = derived_script_pubkey(descriptor,
                              [err |-> FALSE, desc |-> descriptor.id,
                               branch |-> coord_arg[1][1], idx |-> coord_arg[1][2]])
              /\ ret.gap = gaps[coord_arg[1][1] + 1]

\* the script-pubkey at the last index below 2^31 of branch 0 was returned
\* with a watermark that had advanced
C16_Witness ==
    /\ lastOp = "script_pubkey" /\ ~raised
    /\ coord_arg = Some(<<0, 2147483647>>)
    /\ ret.gap > GAP_LIMIT

====
